---------------------------- MODULE Spec2Model ----------------------------
(***************************************************************************)
(* Model of gromacs/tools.py (GromacsWrapper).                             *)
(*                                                                         *)
(* Three specifications live in this module:                                 *)
(*                                                                         *)
(*   Spec      the life cycle of GromacsCommandMultiIndex instances:       *)
(*             __init__, run, _fake_multi_ndx and __del__, together with   *)
(*             the files of the temporary directory.                       *)
(*   SpecEnv   one instance, in an environment that removes temporary      *)
(*             files behind the program's back.                            *)
(*   SpecLoad  the module-level script: the class factory loop, the        *)
(*             G_mindist / G_dist patches, the script loop, publication    *)
(*             and scope clean-up.                                         *)
(***************************************************************************)
EXTENDS Integers, Sequences, FiniteSets, TLC

VARIABLES
    \* ---- instance life cycle ----
    Make_ndx_bound, \* whether the module global Make_ndx is bound (tool configured)
    disk,           \* the paths that exist on disk
    creator,        \* for a temporary path on disk: the instance whose mkstemp made the file
    life,           \* per instance: "unborn" | "live" | "garbage" | "dead"
    multi_ndx,      \* per instance: self.multi_ndx, or NoAttr while the attribute is unset
    last,           \* record of the most recent method call: what it got, did and passed
                    \* on, and the value it stored in self.orig_ndx (written, never read)
    \* ---- module load ----
    load_tools,     \* config.load_tools: the configured tool names
    load_scripts,   \* config.load_scripts: the configured (path, class name, doc) records
    pc,             \* the statement of the module-level script that runs next
    todo,           \* what is left of the loop running at pc
    registry,       \* the dict registry: class name -> class
    globals,        \* the module's namespace: name -> object
    moddoc,         \* the class names appended to the module's __doc__
    made            \* every class object created so far

ivars == <<Make_ndx_bound, disk, creator, life, multi_ndx, last>>
lvars == <<load_tools, load_scripts, pc, todo, registry, globals, moddoc, made>>
vars == <<ivars, lvars>>

-----------------------------------------------------------------------------
(* Bounds and universes of the instance model.                             *)

MaxInst == 2        \* number of GromacsCommandMultiIndex instances
MaxNdx  == 2        \* longest index-file sequence a caller passes

Insts == 1..MaxInst

\* An index file supplied by the user; it exists throughout. Callers also pass
\* temporary files that are on disk (an earlier merge's result) as index files.
InFiles == {"a.ndx"}
\* The names mkstemp(suffix='.ndx', prefix='multi_') can hand out.
TmpNames == {"multi_1.ndx", "multi_2.ndx"}
Paths == InFiles \cup TmpNames

NoAttr == "<unset>"
NoSeq  == <<"<unset>">>
NoInst == 0

\* Python values of the keyword s: key absent, or a structure file.
SVals == {"<absent>", "topol.tpr"}

\* Sequences over S of length lo..hi.
SeqsOf(S, lo, hi) == UNION {[1..k -> S] : k \in lo..hi}

\* Python values of the keyword n: key absent, None, a filename of type str, a
\* filename of type unicode, or a list of filenames.
NVals(files) ==
    {[kind |-> "absent", val |-> <<>>], [kind |-> "none", val |-> <<>>]}
    \cup {[kind |-> "str", val |-> <<p>>] : p \in files}
    \cup {[kind |-> "ustr", val |-> <<p>>] : p \in files}
    \cup {[kind |-> "seq", val |-> q] : q \in SeqsOf(files, 0, MaxNdx)}

\* The keyword arguments of a call; the files they name exist on disk.
KwArgs(files) == [n : NVals(files), s : SVals]

-----------------------------------------------------------------------------
(* Pure helpers of _fake_multi_ndx.                                        *)

\* kwargs.get('n'): an absent key reads as None.
GetN(kw) == IF kw.n.kind = "absent" THEN [kind |-> "none", val |-> <<>>] ELSE kw.n

\* kwargs.get('s'): an absent key reads as None.
GetS(kw) == IF kw.s = "<absent>" THEN "None" ELSE kw.s

\* The number of characters of a filename.
NameLen(p) == IF p \in InFiles THEN 5 ELSE 11

\* len(ndx): the number of items of a list, of characters of a unicode string
PyLen(ndx) == IF ndx.kind = "ustr" THEN NameLen(ndx.val[1]) ELSE Len(ndx.val)

\* not (ndx is None or type(ndx) is str), and then len(ndx) > 1.
\* type(ndx) is str is false of a unicode string.
NeedsMerge(ndx) ==
    /\ ~(ndx.kind = "none" \/ ndx.kind = "str")
    /\ PyLen(ndx) > 1

\* tempfile.mkstemp: creates a file under a name that does not exist yet.
Mkstemp(d) == TmpNames \ d

RememberFirstInput(tmp, ndx) == ndx.val[1]

\* fd, self.multi_ndx = tempfile.mkstemp(...): the path stored on the instance
Remembered(tmp, ndx) == tmp

\* kwargs['n'] = self.multi_ndx
MergedN(tmp, ndx) == [kind |-> "str", val |-> <<Remembered(tmp, ndx)>>]

HelperCallFirstOnly(kw, ndx, out) ==
    [f |-> GetS(kw), n |-> <<ndx.val[1]>>, o |-> out]

\* Make_ndx(f=kwargs.get('s'), n=ndx)(o=self.multi_ndx, input=['q'], ...)
\* n lists the filenames of ndx (the one filename of a unicode string).
HelperCall(kw, ndx, out) ==
    [f |-> GetS(kw), n |-> ndx.val, o |-> out]

\* What the make-index step can do: the global Make_ndx may be unbound
\* (NameError at the lookup); the call may return rc = 0, return rc # 0, or raise.
HelperOutcomes(bound) ==
    IF bound THEN {"ok", "rc_fail", "raise"} ELSE {"NameError"}

HelperRaises(h) == h \in {"raise", "NameError"}

NoHelper == [f |-> "<none>", n |-> <<>>, o |-> "<none>"]
NoKw == [n |-> [kind |-> "unset", val |-> <<>>], s |-> "<unset>"]

-----------------------------------------------------------------------------
(* The module-level script. Python strings that the script takes apart are *)
(* sequences of character codes, so that replace, capitalize, sorted,      *)
(* format and basename are computed as Python computes them.               *)

MaxTools   == 3     \* most tool names in config.load_tools
MaxScripts == 2     \* most records in config.load_scripts

T_g_dist      == <<103, 95, 100, 105, 115, 116>>  \* 'g_dist'
T_g_mindist   == <<103, 95, 109, 105, 110, 100, 105, 115, 116>>  \* 'g_mindist'
T_g_dash_dist == <<103, 45, 100, 105, 115, 116>>  \* 'g-dist'
T_make_ndx    == <<109, 97, 107, 101, 95, 110, 100, 120>>  \* 'make_ndx'
T_GROMPP      == <<71, 82, 79, 77, 80, 80>>  \* 'GROMPP'

\* The tool names a configuration can list.
ToolNames == {T_g_dist, T_g_mindist, T_g_dash_dist, T_make_ndx, T_GROMPP}

K_G_mindist == <<71, 95, 109, 105, 110, 100, 105, 115, 116>>  \* 'G_mindist'
K_G_dist    == <<71, 95, 100, 105, 115, 116>>  \* 'G_dist'
K_Gridmat   == <<71, 114, 105, 100, 77, 65, 84, 95, 77, 68>>  \* 'GridMAT_MD'
N_registry  == <<114, 101, 103, 105, 115, 116, 114, 121>>  \* 'registry'
N_all       == <<95, 95, 97, 108, 108, 95, 95>>  \* '__all__'
N_cls       == <<99, 108, 115>>  \* 'cls'
N_clsname   == <<99, 108, 115, 110, 97, 109, 101>>  \* 'clsname'
N_name      == <<110, 97, 109, 101>>  \* 'name'
N_rec       == <<114, 101, 99>>  \* 'rec'
N_doc       == <<100, 111, 99>>  \* 'doc'
N_exec_name == <<101, 120, 101, 99, 95, 110, 97, 109, 101>>  \* 'exec_name'
N_Command   == <<67, 111, 109, 109, 97, 110, 100>>  \* 'Command'
N_GromacsCommand == <<71, 114, 111, 109, 97, 99, 115, 67, 111, 109, 109, 97, 110, 100>>  \* 'GromacsCommand'
N_GromacsCommandMultiIndex == <<71, 114, 111, 109, 97, 99, 115, 67, 111, 109, 109, 97, 110, 100, 77, 117, 108, 116, 105, 73, 110, 100, 101, 120>>  \* 'GromacsCommandMultiIndex'

P_gridmat == <<47, 111, 112, 116, 47, 71, 114, 105, 100, 77, 65, 84, 45, 77, 68, 46, 112, 108>>  \* '/opt/GridMAT-MD.pl'
P_ana     == <<97, 110, 97, 46, 112, 121>>  \* 'ana.py'

\* The records a configuration can list: (path, class name, description).
ScriptRecs ==
    {<<p, k, "doc">> : p \in {P_gridmat, P_ana},
                       k \in {K_Gridmat, K_G_dist, N_doc, N_all, N_registry}}

\* ---- Python string operations ----

\* str.replace(old, new) for one-character old and new
Replace(str, old, new) ==
    [k \in DOMAIN str |-> IF str[k] = old THEN new ELSE str[k]]

Upper(c) == IF c >= 97 /\ c <= 122 THEN c - 32 ELSE c
Lower(c) == IF c >= 65 /\ c <= 90 THEN c + 32 ELSE c

\* str.capitalize(): the first character upper-cased, the others lower-cased
Capitalize(str) ==
    [k \in DOMAIN str |-> IF k = 1 THEN Upper(str[k]) ELSE Lower(str[k])]

\* Python's order on str: by the first character that differs, a proper
\* prefix first.
StrLess(x, y) ==
    \/ /\ Len(x) < Len(y)
       /\ \A k \in 1..Len(x) : x[k] = y[k]
    \/ \E k \in 1..Len(x) :
        /\ k <= Len(y)
        /\ x[k] < y[k]
        /\ \A m \in 1..(k - 1) : x[m] = y[m]

RECURSIVE Sorted(_)
\* sorted(S)
Sorted(S) ==
    IF S = {} THEN <<>>
    ELSE LET least == CHOOSE x \in S : \A y \in S \ {x} : StrLess(x, y)
         IN  <<least>> \o Sorted(S \ {least})

\* os.path.basename(path): what follows the last '/'
Basename(path) ==
    LET slashes == {k \in DOMAIN path : path[k] = 47}
        cut == IF slashes = {} THEN 0
               ELSE CHOOSE k \in slashes : \A m \in slashes : m <= k
    IN  SubSeq(path, cut + 1, Len(path))

\* ---- the classes ----

\* name.replace('.','_').replace('-','_').capitalize()
ClsName(name) == Capitalize(Replace(Replace(name, 46, 95), 45, 95))

\* '{}_mpi'.format(name)
ToolCommandName(name) == name \o <<95, 109, 112, 105>>  \* '_mpi'

NoOrigin == [by |-> "core", idx |-> 0, tool |-> <<>>]

\* cls = type(clsname, (GromacsCommand,), {'command_name': ..., '__doc__': ...})
ToolClass(name) ==
    [name         |-> ClsName(name),
     base         |-> "GromacsCommand",
     command_name |-> ToolCommandName(name),
     doc          |-> [fmt |-> "Gromacs tool %(name)r.", arg |-> name, text |-> ""],
     origin       |-> [by |-> "tool", idx |-> 0, tool |-> name]]

\* class G_mindist(GromacsCommandMultiIndex): command_name = 'g_mindist'
\* class G_dist(GromacsCommandMultiIndex):    command_name = 'g_dist'
PatchClass(key, tool) ==
    [name         |-> key,
     base         |-> "GromacsCommandMultiIndex",
     command_name |-> tool,
     doc          |-> [fmt |-> "Gromacs tool %r (with patch to handle multiple ndx files).",
                       arg |-> tool, text |-> ""],
     origin       |-> [by |-> "patch", idx |-> 0, tool |-> tool]]

ScriptCommandNameBasename(rec) == Basename(rec[1])

\* 'command_name': name, with name, clsname, doc = rec
ScriptCommandName(rec) == rec[1]

\* type(clsname, (Command,), {'command_name': name, '__doc__': ...}) for the
\* idx-th record of config.load_scripts
ScriptClass(rec, idx) ==
    [name         |-> rec[2],
     base         |-> "Command",
     command_name |-> ScriptCommandName(rec),
     doc          |-> [fmt |-> "External tool %(exec_name)r\n\n%(doc)s.",
                       arg |-> Basename(rec[1]), text |-> rec[3]],
     origin       |-> [by |-> "script", idx |-> idx, tool |-> <<>>]]

\* A class of gromacs.core or the class statement at line 94.
CoreClass(name, base) ==
    [name |-> name, base |-> base, command_name |-> <<>>,
     doc |-> [fmt |-> "", arg |-> <<>>, text |-> ""], origin |-> NoOrigin]

\* ---- the namespace ----

\* The objects a module name can be bound to: a class, or something else.
ClassObj(c) == [kind |-> "class", cls |-> c, keys |-> {}]
OtherObj(what) == [kind |-> what, cls |-> CoreClass(<<>>, ""), keys |-> {}]

\* The list registry.keys()
KeysObj(reg) == [kind |-> "keys", cls |-> CoreClass(<<>>, ""), keys |-> DOMAIN reg]

\* globals()[k] = v for every k in keys
Bind(g, keys, v) ==
    [k \in DOMAIN g \cup keys |-> IF k \in keys THEN v ELSE g[k]]

\* d[k] = v
Put(d, k, v) == [x \in DOMAIN d \cup {k} |-> IF x = k THEN v ELSE d[x]]

\* del k1, k2, ... : the names are unbound
Unbind(g, keys) == [k \in DOMAIN g \ keys |-> g[k]]

UpdateKeepsExisting(g, reg) ==
    [k \in DOMAIN g \cup DOMAIN reg |->
        IF k \in DOMAIN g THEN g[k] ELSE ClassObj(reg[k])]

\* globals().update(registry)
Update(g, reg) ==
    [k \in DOMAIN g \cup DOMAIN reg |->
        IF k \in DOMAIN reg THEN ClassObj(reg[k]) ELSE g[k]]

\* The names the last two lines of the module assign None to and delete.
Scratch == {N_cls, N_clsname, N_name, N_rec, N_doc}

PatchAppliesAlways(reg, key) == TRUE

\* if 'G_mindist' in registry:   /   if 'G_dist' in registry:
PatchApplies(reg, key) == key \in DOMAIN reg

\* ---- the statements ----

AfterTools == "classdef"
AfterPatches(scripts) == IF scripts = <<>> THEN "publish" ELSE "scripts"

\* One pass of: for name in sorted(config.load_tools)
ToolStep ==
    /\ pc = "tools"
    /\ todo # <<>>
    /\ LET name == Head(todo)
           cls == ToolClass(name)
       IN  /\ registry' = Put(registry, cls.name, cls)
           /\ made' = made \cup {cls}
           /\ moddoc' = Append(moddoc, cls.name)
           /\ globals' = Bind(Bind(globals, {N_name, N_clsname}, OtherObj("str")),
                              {N_cls}, ClassObj(cls))
    /\ todo' = Tail(todo)
    /\ pc' = IF Tail(todo) = <<>> THEN AfterTools ELSE "tools"
    /\ UNCHANGED <<load_tools, load_scripts, ivars>>

\* class GromacsCommandMultiIndex(GromacsCommand): ...
ClassStatement ==
    /\ pc = "classdef"
    /\ globals' = Bind(globals, {N_GromacsCommandMultiIndex},
                       ClassObj(CoreClass(N_GromacsCommandMultiIndex, "GromacsCommand")))
    /\ pc' = "patch_mindist"
    /\ UNCHANGED <<load_tools, load_scripts, todo, registry, moddoc, made, ivars>>

\* The patch of one tool: the if statement with its class statement.
Patch(key, tool) ==
    IF PatchApplies(registry, key)
    THEN LET cls == PatchClass(key, tool)
         IN  /\ globals' = Bind(globals, {key}, ClassObj(cls))
             /\ registry' = Put(registry, key, cls)
             /\ made' = made \cup {cls}
    ELSE UNCHANGED <<globals, registry, made>>

PatchMindist ==
    /\ pc = "patch_mindist"
    /\ Patch(K_G_mindist, T_g_mindist)
    /\ pc' = "patch_dist"
    /\ UNCHANGED <<load_tools, load_scripts, todo, moddoc, ivars>>

PatchDist ==
    /\ pc = "patch_dist"
    /\ Patch(K_G_dist, T_g_dist)
    /\ pc' = AfterPatches(load_scripts)
    /\ todo' = <<>>
    /\ UNCHANGED <<load_tools, load_scripts, moddoc, ivars>>

\* One pass of: for rec in config.load_scripts. todo holds the records done.
ScriptStep ==
    /\ pc = "scripts"
    /\ LET idx == Len(todo) + 1
           rec == load_scripts[idx]
           cls == ScriptClass(rec, idx)
       IN  /\ registry' = Put(registry, rec[2], cls)
           /\ made' = made \cup {cls}
           /\ globals' = Bind(Bind(globals, {N_name, N_clsname, N_doc, N_exec_name},
                                   OtherObj("str")),
                              {N_rec}, OtherObj("tuple"))
           /\ todo' = Append(todo, rec)
           /\ pc' = IF idx = Len(load_scripts) THEN "publish" ELSE "scripts"
    /\ UNCHANGED <<load_tools, load_scripts, moddoc, ivars>>

\* globals().update(registry); __all__ = registry.keys()
\* The second statement reads the name registry after the update.
Publish ==
    /\ pc = "publish"
    /\ LET g == Update(globals, registry)
       IN  IF g[N_registry].kind = "dict"
           THEN /\ globals' = Bind(g, {N_all}, KeysObj(registry))
                /\ pc' = "cleanup"
           ELSE \* AttributeError: a class has no attribute keys
                /\ globals' = g
                /\ pc' = "failed"
    /\ UNCHANGED <<load_tools, load_scripts, todo, registry, moddoc, made, ivars>>

\* cls = clsname = name = rec = doc = None; del rec, name, cls, clsname, doc
Cleanup ==
    /\ pc = "cleanup"
    /\ globals' = Unbind(Bind(globals, Scratch, OtherObj("None")), Scratch)
    /\ pc' = "done"
    /\ UNCHANGED <<load_tools, load_scripts, todo, registry, moddoc, made, ivars>>

\* The configurations.
Configs ==
    /\ load_tools \in {S \in SUBSET ToolNames : Cardinality(S) <= MaxTools}
    /\ load_scripts \in SeqsOf(ScriptRecs, 0, MaxScripts)

\* The module-load variables while the instance model runs.
LoadIdle ==
    /\ load_tools = {}
    /\ load_scripts = <<>>
    /\ pc = "loaded"
    /\ todo = <<>>
    /\ registry = << >>
    /\ globals = << >>
    /\ moddoc = <<>>
    /\ made = {}


-----------------------------------------------------------------------------
(* _fake_multi_ndx as a function of the call and of the two outcomes the   *)
(* environment decides: the name mkstemp picks and what make_ndx does.     *)
(* The result says what the method returns or raises and the state it      *)
(* leaves behind.                                                          *)

\* The pass-through branch: return kwargs.
FakePass(i, kw) ==
    [merged  |-> FALSE,
     kw      |-> kw,
     exc     |-> "none",
     helper  |-> NoHelper,
     hres    |-> "none",
     tmp     |-> NoAttr,
     multi   |-> multi_ndx[i],
     orig    |-> NoSeq,
     disk    |-> disk,
     creator |-> creator]

\* The merge branch, lines 152-157.
FakeMerge(i, kw, tmp, h) ==
    LET ndx == GetN(kw)
        mem == Remembered(tmp, ndx)
    IN  [merged  |-> TRUE,
         kw      |-> IF HelperRaises(h) THEN NoKw
                     ELSE [kw EXCEPT !.n = MergedN(tmp, ndx)],
         exc     |-> CASE h = "NameError" -> "NameError"
                       [] h = "raise"     -> "GromacsError"
                       [] OTHER           -> "none",
         helper  |-> IF h = "NameError" THEN NoHelper
                     ELSE HelperCall(kw, ndx, mem),
         hres    |-> h,
         tmp     |-> tmp,
         multi   |-> mem,
         orig    |-> IF HelperRaises(h) THEN NoSeq ELSE ndx.val,
         disk    |-> disk \cup {tmp},
         creator |-> [creator EXCEPT ![tmp] = i]]

\* One call of a method that starts with kwargs = self._fake_multi_ndx(**kwargs)
\* and then delegates to the parent class: the initializer or run.
Call(i, op, kw, r) ==
    /\ multi_ndx' = [multi_ndx EXCEPT ![i] = r.multi]
    /\ disk' = r.disk
    /\ creator' = r.creator
    /\ last' = [inst      |-> i,
                op        |-> op,
                kwIn      |-> kw,
                merged    |-> r.merged,
                helper    |-> r.helper,
                hres      |-> r.hres,
                tmp       |-> r.tmp,
                orig      |-> r.orig,
                delegated |-> r.exc = "none",
                parentKw  |-> r.kw,
                exc       |-> r.exc]
    /\ UNCHANGED <<Make_ndx_bound, lvars>>

FakeMultiNdx(i, op, kw) ==
    IF NeedsMerge(GetN(kw))
    THEN \E tmp \in Mkstemp(disk), h \in HelperOutcomes(Make_ndx_bound) :
            Call(i, op, kw, FakeMerge(i, kw, tmp, h))
    ELSE Call(i, op, kw, FakePass(i, kw))

\* GromacsCommandMultiIndex.__init__(self, **kwargs)
InitCall(i) ==
    /\ life[i] = "unborn"
    /\ \E kw \in KwArgs(disk) :
        /\ FakeMultiNdx(i, "init", kw)
        /\ life' = [life EXCEPT ![i] = IF last'.exc = "none" THEN "live" ELSE "garbage"]

\* GromacsCommandMultiIndex.run(self, *args, **kwargs)
RunCall(i) ==
    /\ life[i] = "live"
    /\ \E kw \in KwArgs(disk) :
        /\ FakeMultiNdx(i, "run", kw)
        /\ UNCHANGED life

-----------------------------------------------------------------------------
(* __del__ and the delete helper utilities.unlink_gmx.                     *)

\* What unlink_gmx(path) can do: remove the file, find nothing to remove, or
\* fail with an OSError (a missing file, a permission error).
UnlinkOutcomes(p, d) ==
    IF p \in d THEN {"removed", "OSError"} ELSE {"nothing", "OSError"}

DelCaughtAttributeErrorOnly == {"AttributeError"}

\* except (AttributeError, OSError): pass
DelCaught == {"AttributeError", "OSError"}

\* The exception that leaves __del__, "none" when it returns.
Escapes(e) == IF e \in DelCaught THEN "none" ELSE e

DelRecord(i, e) ==
    [inst |-> i, op |-> "del", kwIn |-> NoKw, merged |-> FALSE,
     helper |-> NoHelper, hres |-> e, tmp |-> NoAttr, orig |-> NoSeq,
     delegated |-> FALSE,
     parentKw |-> NoKw, exc |-> Escapes(e)]

\* GromacsCommandMultiIndex.__del__(self)
Del(i) ==
    /\ life[i] \in {"live", "garbage"}
    /\ life' = [life EXCEPT ![i] = "dead"]
    /\ IF multi_ndx[i] = NoAttr
       THEN \* reading self.multi_ndx raises AttributeError
            /\ last' = DelRecord(i, "AttributeError")
            /\ UNCHANGED <<disk, creator>>
       ELSE \E u \in UnlinkOutcomes(multi_ndx[i], disk) :
            /\ last' = DelRecord(i, IF u = "OSError" THEN "OSError" ELSE "none")
            /\ disk' = IF u = "removed" THEN disk \ {multi_ndx[i]} ELSE disk
            /\ creator' = IF u = "removed" /\ multi_ndx[i] \in TmpNames
                          THEN [creator EXCEPT ![multi_ndx[i]] = NoInst]
                          ELSE creator
    /\ UNCHANGED <<Make_ndx_bound, multi_ndx, lvars>>

\* Something other than the program removes a temporary file.
ExternalRemove ==
    /\ \E p \in disk \cap TmpNames :
        /\ disk' = disk \ {p}
        /\ creator' = [creator EXCEPT ![p] = NoInst]
    /\ UNCHANGED <<Make_ndx_bound, life, multi_ndx, last, lvars>>

-----------------------------------------------------------------------------

NoLast ==
    [inst |-> NoInst, op |-> "none", kwIn |-> NoKw, merged |-> FALSE,
     helper |-> NoHelper, hres |-> "none", tmp |-> NoAttr, orig |-> NoSeq,
     delegated |-> FALSE,
     parentKw |-> NoKw, exc |-> "none"]

\* The instances before any of them is constructed.
InitInst ==
    /\ disk = InFiles
    /\ creator = [p \in TmpNames |-> NoInst]
    /\ life = [i \in Insts |-> "unborn"]
    /\ multi_ndx = [i \in Insts |-> NoAttr]
    /\ last = NoLast

Init ==
    /\ Make_ndx_bound \in BOOLEAN
    /\ InitInst
    /\ LoadIdle

Next ==
    \E i \in Insts :
        \/ InitCall(i)
        \/ RunCall(i)
        \/ Del(i)

Spec == Init /\ [][Next]_vars

\* One instance in an environment (other instances, other processes) that
\* removes temporary files.
NextEnv ==
    \/ InitCall(1)
    \/ RunCall(1)
    \/ Del(1)
    \/ ExternalRemove

SpecEnv == Init /\ [][NextEnv]_vars

\* The module before line 79: the imports are done, registry = {}.
InitLoad ==
    /\ Configs
    /\ pc = IF load_tools = {} THEN AfterTools ELSE "tools"
    /\ todo = Sorted(load_tools)
    /\ registry = << >>
    /\ globals = (N_registry :> OtherObj("dict"))
                 @@ (N_Command :> ClassObj(CoreClass(N_Command, "object")))
                 @@ (N_GromacsCommand :> ClassObj(CoreClass(N_GromacsCommand, "Command")))
    /\ moddoc = <<>>
    /\ made = {}
    /\ Make_ndx_bound = FALSE
    /\ InitInst

NextLoad ==
    \/ ToolStep
    \/ ClassStatement
    \/ PatchMindist
    \/ PatchDist
    \/ ScriptStep
    \/ Publish
    \/ Cleanup

SpecLoad == InitLoad /\ [][NextLoad]_vars

-----------------------------------------------------------------------------
(* Properties of the instance life cycle.                                  *)

IsCall(l) == l.op \in {"init", "run"}
Alive(i) == life[i] \in {"live", "garbage"}
Range(q) == {q[k] : k \in DOMAIN q}

\* The index argument is a sequence of more than one filename.
MultiFile(kw) == kw.n.kind = "seq" /\ Len(kw.n.val) > 1

\* The index argument is absent, a single filename string or a one-element sequence.
SingleOrAbsent(kw) ==
    \/ kw.n.kind \in {"absent", "str", "ustr"}
    \/ kw.n.kind = "seq" /\ Len(kw.n.val) = 1

\* C1: once an instance is destroyed, no temporary index file it created is
\* still on disk. Stated for the destructions whose delete helper did not fail
\* (a failed delete leaves the file by the best-effort policy), which the claim
\* implies.
ClaimC1 ==
    (last.op = "del" /\ last.hres # "OSError")
        => \A p \in disk \cap TmpNames : creator[p] # last.inst

\* C2: a step that is an initializer or run call with a multi-file index
\* argument and that reaches the parent has issued the make-index helper with
\* the structure file (None when absent), all the index files in their order
\* and a newly allocated temporary file as output, and hands the parent that
\* temporary file as n, a path different from every input; s is unchanged.
C2Step ==
    (IsCall(last') /\ MultiFile(last'.kwIn) /\ last'.delegated)
        => /\ last'.parentKw.n.kind = "str"
           /\ LET t == last'.parentKw.n.val[1]
              IN  /\ t \in TmpNames
                  /\ t \notin disk
                  /\ t \in disk'
                  /\ t \notin Range(last'.kwIn.n.val)
                  /\ last'.helper = [f |-> IF last'.kwIn.s = "<absent>" THEN "None"
                                           ELSE last'.kwIn.s,
                                     n |-> last'.kwIn.n.val,
                                     o |-> t]
           /\ last'.parentKw.s = last'.kwIn.s

\* C2: every step satisfies C2Step: a multi-file call that reaches the parent
\* has merged the files into a new temporary file and passes that file as n.
TheoremC2 == [][C2Step]_vars

WitnessC2 ==
    /\ last.op = "run"
    /\ MultiFile(last.kwIn)
    /\ last.delegated
    /\ last.kwIn.s = "topol.tpr"
    /\ \E p \in TmpNames : p \in Range(last.kwIn.n.val)

\* C3: a step that is an initializer or run call whose index argument is
\* absent, a single filename string (str or unicode) or a one-element sequence
\* passes every keyword argument to the parent unchanged, creates no file,
\* invokes no make-index helper and leaves the remembered temporary path as it
\* was.
C3Step ==
    (IsCall(last') /\ SingleOrAbsent(last'.kwIn))
        => /\ last'.delegated
           /\ last'.parentKw = last'.kwIn
           /\ disk' = disk
           /\ creator' = creator
           /\ last'.helper = NoHelper
           /\ last'.hres = "none"
           /\ multi_ndx' = multi_ndx

\* C3: every step satisfies C3Step.
ClaimC3 == [][C3Step]_vars

\* C4: __del__ never raises: not when the instance never created a temporary
\* file, not when the file is gone, not when the delete helper fails.
TheoremC4 == last.op = "del" => last.exc = "none"

WitnessC4 ==
    /\ last.op = "del"
    /\ last.hres = "OSError"
    /\ multi_ndx[last.inst] \in TmpNames
    /\ multi_ndx[last.inst] \notin disk

\* C5: when the make-index step of a multi-file call fails, by raising or by
\* a failing return code, the call fails too and the parent is not reached.
ClaimC5 ==
    (IsCall(last) /\ last.hres \in {"rc_fail", "raise", "NameError"})
        => (last.exc # "none" /\ ~last.delegated)

\* C10: no temporary path is remembered by two live instances at once, and a
\* destruction removes no temporary file created by another live instance.
NoSharedTemp ==
    \A i, j \in Insts :
        (i # j /\ Alive(i) /\ Alive(j) /\ multi_ndx[i] # NoAttr)
            => multi_ndx[i] # multi_ndx[j]

DelSparesOthers ==
    \A i \in Insts :
        (life[i] # "dead" /\ life'[i] = "dead")
            => \A p \in (disk \ disk') \cap TmpNames :
                 \A j \in Insts \ {i} : Alive(j) => creator[p] # j

\* C10: NoSharedTemp holds in every state and DelSparesOthers in every step.
TheoremC10 == []NoSharedTemp /\ [][DelSparesOthers]_vars

WitnessC10 ==
    /\ last.op = "del"
    /\ last.hres = "none"
    /\ \E j \in Insts \ {last.inst} :
        /\ Alive(j)
        /\ multi_ndx[j] \in disk \cap TmpNames
        /\ creator[multi_ndx[j]] = j
        /\ multi_ndx[last.inst] \in TmpNames \ disk

-----------------------------------------------------------------------------
(* Properties of the module load.                                          *)

Loaded == pc = "done"

\* The class names the configured records carry.
ScriptNames == {load_scripts[j][2] : j \in DOMAIN load_scripts}

\* Some configured tool name derives the class name key.
Derives(key) == \E t \in load_tools : ClsName(t) = key

\* No class name is derived or given twice in the configuration.
NoCollision ==
    /\ \A t1, t2 \in load_tools : ClsName(t1) = ClsName(t2) => t1 = t2
    /\ \A j \in DOMAIN load_scripts : ~Derives(load_scripts[j][2])

\* No configured tool name holds a dot or a dash.
PlainNames == \A t \in load_tools : Replace(Replace(t, 46, 95), 45, 95) = t

Patched == {<<K_G_mindist, T_g_mindist>>, <<K_G_dist, T_g_dist>>}

\* The patch class of tool was created.
PatchMade(tool) ==
    \E c \in made : c.origin.by = "patch" /\ c.origin.tool = tool

\* C6: after the load, every configured tool name has its class in the
\* registry under the derived name, bound to the tool name with _mpi appended.
\* Stated for the configurations whose tool names hold no dot or dash and in
\* which no class name occurs twice, which the claim implies.
ClaimC6 ==
    (Loaded /\ NoCollision /\ PlainNames)
        => \A t \in load_tools :
            /\ ClsName(t) \in DOMAIN registry
            /\ registry[ClsName(t)].command_name = t \o <<95, 109, 112, 105>>

\* C7 as claimed: a configured g_mindist / g_dist has a GromacsCommandMultiIndex
\* subclass bound to it in the registry; for one that is not configured no
\* patch happens and the registry has no entry made for it (an entry under its
\* class name can only be a script record's).
ClaimC7 ==
    Loaded =>
        \A pt \in Patched :
            IF pt[2] \in load_tools
            THEN /\ pt[1] \in DOMAIN registry
                 /\ registry[pt[1]].base = "GromacsCommandMultiIndex"
                 /\ registry[pt[1]].command_name = pt[2]
            ELSE /\ ~PatchMade(pt[2])
                 /\ pt[1] \in DOMAIN registry
                        => registry[pt[1]].origin.by = "script"

\* C7 amended: the patch is applied exactly when some configured tool name
\* derives the class name; unless a script record carries that class name, the
\* registry entry is then a GromacsCommandMultiIndex subclass bound to the
\* plain tool name, and there is no entry when the patch was not applied.
TheoremC7 ==
    Loaded =>
        \A pt \in Patched :
            /\ PatchMade(pt[2]) <=> Derives(pt[1])
            /\ (Derives(pt[1]) /\ pt[1] \notin ScriptNames)
                => /\ pt[1] \in DOMAIN registry
                   /\ registry[pt[1]].base = "GromacsCommandMultiIndex"
                   /\ registry[pt[1]].command_name = pt[2]
            /\ (~Derives(pt[1]) /\ pt[1] \notin ScriptNames)
                => pt[1] \notin DOMAIN registry

WitnessC7 ==
    /\ Loaded
    /\ T_g_dash_dist \in load_tools
    /\ T_g_dist \notin load_tools
    /\ T_g_mindist \in load_tools
    /\ K_G_dist \notin ScriptNames
    /\ registry[K_G_dist].base = "GromacsCommandMultiIndex"

\* The registry keys that hold the class made for the j-th script record.
KeysOfScript(j) ==
    {k \in DOMAIN registry :
        registry[k].origin.by = "script" /\ registry[k].origin.idx = j}

\* C8 as claimed: every script record has exactly one class in the registry, a
\* Command subclass bound to its path, and no tool-derived entry was replaced.
ClaimC8 ==
    Loaded =>
        /\ \A j \in DOMAIN load_scripts :
            /\ Cardinality(KeysOfScript(j)) = 1
            /\ \A k \in KeysOfScript(j) :
                /\ registry[k].base = "Command"
                /\ registry[k].command_name = load_scripts[j][1]
        /\ \A t \in load_tools : registry[ClsName(t)].origin.by # "script"

\* The classes made for the j-th script record.
MadeForScript(j) ==
    {c \in made : c.origin.by = "script" /\ c.origin.idx = j}

\* The j-th record is the last one with its class name.
LastOfName(j) ==
    \A m \in DOMAIN load_scripts : m > j => load_scripts[m][2] # load_scripts[j][2]

C8Final ==
    Loaded =>
        \A j \in DOMAIN load_scripts :
            /\ Cardinality(MadeForScript(j)) = 1
            /\ \A c \in MadeForScript(j) :
                /\ c.base = "Command"
                /\ c.command_name = load_scripts[j][1]
                /\ c.name = load_scripts[j][2]
                /\ LastOfName(j) => registry[load_scripts[j][2]] = c

C8Step ==
    pc = "scripts" =>
        \A k \in DOMAIN registry :
            k # load_scripts[Len(todo) + 1][2]
                => (k \in DOMAIN registry' /\ registry'[k] = registry[k])

\* C8 amended: every script record produces exactly one class, a Command
\* subclass bound to its path; the registry holds it under the record's class
\* name unless a later record carries the same class name; registering a
\* record changes no registry entry but the one under its class name.
TheoremC8 == []C8Final /\ [][C8Step]_vars

WitnessC8 ==
    /\ Loaded
    /\ Len(load_scripts) = 2
    /\ load_scripts[1][2] = load_scripts[2][2]
    /\ load_scripts[1][1] # load_scripts[2][1]
    /\ Derives(load_scripts[1][2])

BoundToRegistryClass(k) ==
    /\ k \in DOMAIN globals
    /\ globals[k].kind = "class"
    /\ globals[k].cls = registry[k]

AllIsKeys ==
    /\ N_all \in DOMAIN globals
    /\ globals[N_all].kind = "keys"
    /\ globals[N_all].keys = DOMAIN registry

\* C9 as claimed: after the load every registry key is a module name bound to
\* the registry's class, and __all__ is the registry's keys.
ClaimC9 ==
    Loaded => /\ \A k \in DOMAIN registry : BoundToRegistryClass(k)
              /\ AllIsKeys

\* C9 amended: after the load every registry key other than cls, clsname,
\* name, rec, doc and __all__ is a module name bound to the registry's class;
\* the five scratch names are unbound; __all__ is the registry's keys.
TheoremC9 ==
    Loaded => /\ \A k \in DOMAIN registry \ (Scratch \cup {N_all}) :
                    BoundToRegistryClass(k)
              /\ \A k \in Scratch : k \notin DOMAIN globals
              /\ AllIsKeys

WitnessC9 ==
    /\ Loaded
    /\ N_doc \in DOMAIN registry
    /\ K_G_dist \in ScriptNames
    /\ PatchMade(T_g_dist)

====
